---------------------------- MODULE Spec2Model ----------------------------
(***************************************************************************)
(* Model of Display_Logic.h of ESP32_CYD_Othello_Game: the touch           *)
(* calibration life cycle (touch_calibrate_LovyanGFX) over a LittleFS      *)
(* file, and the control surface (keyColor / key / modeButton /            *)
(* difficultyButton, isSettingsMode, touchedButton).                       *)
(*                                                                         *)
(* Spec is the whole program.  The two halves share no state, so the       *)
(* properties are checked under its two projections:                       *)
(*   SpecCal  sessions of touch_calibrate_LovyanGFX over a persistent file *)
(*   SpecUI   the control surface and the touch dispatch of one session    *)
(***************************************************************************)
EXTENDS Integers, Sequences, FiniteSets

(***************************************************************************)
(* Bounds of the model.                                                    *)
(***************************************************************************)
\* number of sessions (boots) explored
MaxSessions == 3

\* number of consecutive polls a touch is held
MaxHold == 3

\* number of times the grid is drawn in a session
MaxBuilds == 2

(***************************************************************************)
(* Calibration records and their byte image.                               *)
(***************************************************************************)
\* uint16_t calData[8]: 8 coefficients                       (line 78)
CAL_WORDS == 8

\* size of the record in the file: readBytes(.., 16), write(.., 16)
CAL_BYTES == 16

\* value of a calibration that has never been set in this session
NoCal == <<>>

\* records the interactive routine tft.calibrateTouch can deliver; the
\* first one is the example of the source's comment (line 129)
AcqRecords ==
    { <<3756, 373, 3718, 3827, 314, 370, 248, 3848>>,
      <<300, 3700, 3650, 256, 255, 4095, 0, 511>> }

Min(a, b) == IF a < b THEN a ELSE b

\* (const unsigned char *)calData: the bytes of the uint16_t array in
\* memory, little-endian on the ESP32 (low byte first)
ToBytesBE(rec) ==
    [i \in 1..(2 * Len(rec)) |->
        IF i % 2 = 1 THEN rec[(i + 1) \div 2] \div 256
                     ELSE rec[(i + 1) \div 2] % 256]

ToBytes(rec) ==
    [i \in 1..(2 * Len(rec)) |->
        IF i % 2 = 1 THEN rec[(i + 1) \div 2] % 256
                     ELSE rec[(i + 1) \div 2] \div 256]

\* (char *)calData filled by readBytes: the uint16_t values the first 16
\* bytes of the file denote
FromBytesMutant(bytes) ==
    [i \in 1..CAL_WORDS |-> 256 * bytes[2 * i - 1] + bytes[2 * i]]

FromBytes(bytes) ==
    [i \in 1..CAL_WORDS |-> bytes[2 * i - 1] + 256 * bytes[2 * i]]

\* f.readBytes((char *)calData, 16): number of bytes delivered
ReadBytes(data) == Min(Len(data), CAL_BYTES)

\* f.write((const unsigned char *)calData, 16) when n bytes reach the file
WrittenDataMutant(rec, n) == SubSeq(ToBytes(rec), 1, Min(n, 14))

WrittenData(rec, n) == SubSeq(ToBytes(rec), 1, n)

\* line 86..98: calDataOK after the existence test and the read
CalDataOKMutant(flag, exists, opened, n) ==
    IF exists /\ ~flag /\ opened /\ n > 0 THEN 1 ELSE 0

CalDataOK(flag, exists, opened, n) ==
    IF exists /\ ~flag /\ opened /\ n = CAL_BYTES THEN 1 ELSE 0

\* line 100: if (calDataOK && !REPEAT_CAL)
UseStoredMutant(ok, flag) == ok = 1 /\ flag

UseStored(ok, flag) == ok = 1 /\ ~flag

\* line 102 / line 122: the record the touch service holds on return;
\* tft.setTouchCalibrate(calData) applies the loaded record, and
\* tft.calibrateTouch(calData, ...) applies the record it acquires
AppliedRecordMutant(stored, loaded, acquired) ==
    IF stored THEN NoCal ELSE acquired

AppliedRecord(stored, loaded, acquired) ==
    IF stored THEN loaded ELSE acquired

VARIABLES
    REPEAT_CAL,     \* the build-time flag of this session's firmware
    fsExists,       \* LittleFS.exists(CALIBRATION_FILE)
    fsData,         \* bytes of CALIBRATION_FILE (<<>> when absent)
    pc,             \* "boot": before the call, "calibrated": after it
    session,        \* number of the current session
    existed,        \* what LittleFS.exists returned in this call
    readCount,      \* what readBytes returned in this call, -1: no read
    acqCount,       \* calls of tft.calibrateTouch in this call
    calData,        \* the local calData on return
    wrote,          \* what f.write returned in this call, -1: no write
    applied,        \* record held by the touch service
    prevAcq,        \* acqCount of the previous session
    prevWrote,      \* wrote of the previous session
    initAbsent,     \* no calibration file existed in the first session
    everForced,     \* some session so far ran with REPEAT_CAL true
    ioFault,        \* some storage operation failed so far
    firstRec        \* record acquired in the first session

calVars == <<REPEAT_CAL, fsExists, fsData, pc, session, existed, readCount,
             acqCount, calData, wrote, applied, prevAcq, prevWrote,
             initAbsent, everForced, ioFault, firstRec>>

(***************************************************************************)
(* The control surface.                                                    *)
(***************************************************************************)
KEY_X == 15
KEY_Y == 15
KEY_W == 25
KEY_H == 25
KEY_SPACING_X == 5
KEY_SPACING_Y == 5
NUMBER_OF_KEYS == 64
GAME_MODE_2_Y == 140
GAME_MODE_21_X == 60
GAME_MODE_22_X == 180
GAME_MODE_W == 110
GAME_MODE_H == 40
GAME_DIFFICULTY_LEVEL_2_Y == 230
GAME_DIFFICULTY_LEVEL_EASY_X == 40
GAME_DIFFICULTY_LEVEL_MIDLE_X == 120
GAME_DIFFICULTY_LEVEL_HARD_X == 200
GAME_DIFFICULTY_LEVEL_W == 75
GAME_DIFFICULTY_LEVEL_H == 40

\* rows and columns of the loops of drawKeypad (row < 8, col < 8)
GRID_DIM == 8

TFT_DARKGREY == "TFT_DARKGREY"
TFT_BLUE == "TFT_BLUE"
\* int keyColor[] is a global, zero before initKeyColors; 0 is TFT_BLACK
TFT_BLACK == "TFT_BLACK"
TFT_WHITE == "TFT_WHITE"

\* identities: 0..63 are the grid cells (index of key[]); the selectors
\* follow in declaration order
GridIds == 0..(NUMBER_OF_KEYS - 1)
ModeIds == { NUMBER_OF_KEYS + i : i \in 0..1 }
DifficultyIds == { NUMBER_OF_KEYS + 2 + i : i \in 0..2 }
SelectorIds == ModeIds \cup DifficultyIds
NoButton == -1

\* an LGFX_Button before initButton
BlankButton == [x |-> 0, y |-> 0, w |-> 0, h |-> 0, fill |-> "", inited |-> FALSE]

\* LGFX_Button::initButton(gfx, x, y, w, h, outline, fill, ...): x, y is
\* the centre of the button; the button keeps its upper left corner
InitButton(x, y, w, h, fill) ==
    [x |-> x - (w \div 2), y |-> y - (h \div 2), w |-> w, h |-> h,
     fill |-> fill, inited |-> TRUE]

\* LGFX_Button::contains(x, y)
Contains(btn, pt) ==
    /\ pt[1] >= btn.x /\ pt[1] < btn.x + btn.w
    /\ pt[2] >= btn.y /\ pt[2] < btn.y + btn.h

\* uint8_t b = col + row * 8
KeyIndexMutant(row, col) == (col + row * 7) % 256

KeyIndex(row, col) == (col + row * 8) % 256

\* the initButton call of drawKeypad for one row and column
KeyButton(row, col, colors) ==
    InitButton(KEY_X + col * (KEY_W + KEY_SPACING_X),
               KEY_Y + row * (KEY_H + KEY_SPACING_Y),
               KEY_W, KEY_H, colors[KeyIndex(row, col)])

\* the two loops of drawKeypad from iteration i on, row by row
RECURSIVE DrawKeys(_, _, _)
DrawKeys(keys, colors, i) ==
    IF i = GRID_DIM * GRID_DIM THEN keys
    ELSE LET row == i \div GRID_DIM
             col == i % GRID_DIM
         IN DrawKeys([keys EXCEPT ![KeyIndex(row, col)] =
                          KeyButton(row, col, colors)],
                     colors, i + 1)

\* the loop of initKeyColors
InitKeyColorsMutant(colors) ==
    [i \in DOMAIN colors |->
        IF i < NUMBER_OF_KEYS - 1 THEN TFT_DARKGREY ELSE colors[i]]

InitKeyColors(colors) ==
    [i \in DOMAIN colors |->
        IF i < NUMBER_OF_KEYS THEN TFT_DARKGREY ELSE colors[i]]

\* bool isSettingsMode = true;
isSettingsModeInitMutant == FALSE

isSettingsModeInit == TRUE

\* the active subset of the registry for a UI mode
ActiveFor(settings) == IF settings THEN SelectorIds ELSE GridIds

\* edge detection of the touch dispatch: a press is a touch asserted now
\* that was not asserted at the previous poll
IsPressMutant(asserted, before) == asserted

IsPress(asserted, before) == asserted /\ ~before

\* points of the screen a finger is put on: centre of cell 0, the gap
\* between cell 0 and cell 1, centre of cell 63, centre of mode selector
\* 0, centre of the difficulty selector 2
TouchPoints ==
    { <<15, 15>>, <<30, 15>>, <<225, 225>>, <<60, 140>>, <<200, 230>> }

\* colours the game gives to a cell after the grid is built
PieceColors == { TFT_WHITE, TFT_BLACK }

VARIABLES
    keyColor,               \* int keyColor[NUMBER_OF_KEYS]
    key,                    \* LGFX_Button key[NUMBER_OF_KEYS]
    modeButton,             \* LGFX_Button modeButton[2]
    difficultyButton,       \* LGFX_Button difficultyButton[3]
    touchedButton,          \* int touchedButton
    isButtonTouched,        \* bool isButtonTouched
    isWaitingForHumanMove,  \* bool isWaitingForHumanMove
    isSettingsMode,         \* bool isSettingsMode
    active,                 \* identities that are hit-tested
    selMode,                \* selected game mode, -1: none
    selDiff,                \* selected difficulty, -1: none
    uiPc,                   \* position of the start-up sequence
    gridBuilds,             \* runs of drawKeypad in this session
    touchPt,                \* where the finger is, <<>>: released
    wasTouched,             \* a touch was asserted at the previous poll
    heldPolls,              \* polls since the finger went down
    holdEvents,             \* of these, polls that resolved an identity
    pressHit                \* the finger went down on an active button

uiVars == <<keyColor, key, modeButton, difficultyButton, touchedButton,
            isButtonTouched, isWaitingForHumanMove, isSettingsMode, active,
            selMode, selDiff, uiPc, gridBuilds, touchPt, wasTouched,
            heldPolls, holdEvents, pressHit>>

vars == <<calVars, uiVars>>

\* the globals after static initialisation (lines 38, 64..73)
UIStart(kc, k, mb, db, tb, ibt, iw, ism, act, sm, sd, up, gb, tp, wt, hp, he, ph) ==
    /\ kc = [i \in GridIds |-> TFT_BLACK]
    /\ k = [i \in GridIds |-> BlankButton]
    /\ mb = [i \in 0..1 |-> BlankButton]
    /\ db = [i \in 0..2 |-> BlankButton]
    /\ tb = NoButton
    /\ ibt = FALSE
    /\ iw = FALSE
    /\ ism = isSettingsModeInit
    /\ act = SelectorIds
    /\ sm = -1
    /\ sd = -1
    /\ up = "start"
    /\ gb = 0
    /\ tp = <<>>
    /\ wt = FALSE
    /\ hp = 0
    /\ he = 0
    /\ ph = FALSE

InitUI ==
    UIStart(keyColor, key, modeButton, difficultyButton, touchedButton,
            isButtonTouched, isWaitingForHumanMove, isSettingsMode, active,
            selMode, selDiff, uiPc, gridBuilds, touchPt, wasTouched,
            heldPolls, holdEvents, pressHit)

ResetUI ==
    UIStart(keyColor', key', modeButton', difficultyButton', touchedButton',
            isButtonTouched', isWaitingForHumanMove', isSettingsMode',
            active', selMode', selDiff', uiPc', gridBuilds', touchPt',
            wasTouched', heldPolls', holdEvents', pressHit')

\* contents a calibration file left by an earlier run can have: a record
\* written in full, a record cut short, a record followed by more bytes
InitFiles ==
    { SubSeq(ToBytes(r), 1, n) : r \in AcqRecords, n \in 0..CAL_BYTES }
        \cup { ToBytes(r) \o <<0, 1>> : r \in AcqRecords }

InitCal ==
    /\ REPEAT_CAL \in BOOLEAN
    /\ \/ fsExists = FALSE /\ fsData = <<>>
       \/ fsExists = TRUE /\ fsData \in InitFiles
    /\ pc = "boot"
    /\ session = 1
    /\ existed = FALSE
    /\ readCount = -1
    /\ acqCount = 0
    /\ calData = NoCal
    /\ wrote = -1
    /\ applied = NoCal
    /\ prevAcq = 0
    /\ prevWrote = -1
    /\ initAbsent = ~fsExists
    /\ everForced = REPEAT_CAL
    /\ ioFault = FALSE
    /\ firstRec = NoCal

\* void touch_calibrate_LovyanGFX(): the whole call.
\*   removed  LittleFS.remove succeeded                      (line 89)
\*   opened   LittleFS.open(.., "r") gave a file             (line 91)
\*   rec      the record tft.calibrateTouch delivers         (line 122)
\*   openedW  LittleFS.open(.., "w") gave a file             (line 134)
\*   n        bytes f.write stored                           (line 136)
touch_calibrate_LovyanGFX ==
    /\ pc = "boot"
    /\ \E removed \in BOOLEAN, opened \in BOOLEAN, rec \in AcqRecords,
          openedW \in BOOLEAN, n \in 0..CAL_BYTES :
        LET exists   == fsExists
            doRemove == exists /\ REPEAT_CAL
            doRead   == exists /\ ~REPEAT_CAL /\ opened
            nRead    == IF doRead THEN ReadBytes(fsData) ELSE -1
            ok       == CalDataOK(REPEAT_CAL, exists, opened, nRead)
            stored   == UseStored(ok, REPEAT_CAL)
            loaded   == IF nRead = CAL_BYTES
                          THEN FromBytes(SubSeq(fsData, 1, CAL_BYTES))
                          ELSE NoCal
            \* the file after lines 86..98
            exists1  == IF doRemove /\ removed THEN FALSE ELSE exists
            data1    == IF doRemove /\ removed THEN <<>> ELSE fsData
        IN
        \* choices the taken path does not use are fixed
        /\ doRemove \/ removed
        /\ (exists /\ ~REPEAT_CAL) \/ opened
        /\ ~stored \/ (rec = CHOOSE r \in AcqRecords : TRUE)
        /\ ~stored \/ openedW
        /\ (~stored /\ openedW) \/ n = 0
        /\ existed' = exists
        /\ readCount' = nRead
        /\ acqCount' = IF stored THEN 0 ELSE 1
        /\ calData' = IF stored THEN loaded ELSE rec
        /\ applied' = AppliedRecord(stored, loaded, rec)
        /\ wrote' = IF ~stored /\ openedW THEN n ELSE -1
        /\ fsExists' = IF ~stored /\ openedW THEN TRUE ELSE exists1
        /\ fsData' = IF ~stored /\ openedW THEN WrittenData(rec, n)
                                            ELSE data1
        /\ ioFault' = (\/ ioFault
                       \/ doRemove /\ ~removed
                       \/ exists /\ ~REPEAT_CAL /\ ~opened
                       \/ ~stored /\ ~openedW
                       \/ ~stored /\ openedW /\ n < CAL_BYTES)
        /\ firstRec' = IF session = 1 /\ ~stored THEN rec ELSE firstRec
    /\ pc' = "calibrated"
    /\ UNCHANGED <<REPEAT_CAL, session, prevAcq, prevWrote, initAbsent,
                   everForced>>
    /\ UNCHANGED uiVars

\* power cycle, or reflash with the flag changed ("Set REPEAT_CAL to false
\* to stop this running again!", line 119): RAM is lost, the file stays
Reboot ==
    /\ pc = "calibrated"
    /\ session < MaxSessions
    /\ \E flag \in BOOLEAN :
        /\ REPEAT_CAL' = flag
        /\ everForced' = (everForced \/ flag)
    /\ pc' = "boot"
    /\ session' = session + 1
    /\ prevAcq' = acqCount
    /\ prevWrote' = wrote
    /\ existed' = FALSE
    /\ readCount' = -1
    /\ acqCount' = 0
    /\ calData' = NoCal
    /\ wrote' = -1
    /\ applied' = NoCal
    /\ UNCHANGED <<fsExists, fsData, initAbsent, ioFault, firstRec>>
    /\ ResetUI

NextCal == touch_calibrate_LovyanGFX \/ Reboot

(***************************************************************************)
(* Operations of the control surface.  They run after the calibration.     *)
(***************************************************************************)
\* the button with an identity
ButtonOf(id) ==
    IF id \in GridIds THEN key[id]
    ELSE IF id \in ModeIds THEN modeButton[id - NUMBER_OF_KEYS]
    ELSE difficultyButton[id - NUMBER_OF_KEYS - 2]

\* hit test of a point against a set of identities in their fixed order
\* (row by row for the grid, declaration order for the selectors): the
\* first match, which is the smallest identity
HitTest(ids, pt) ==
    LET hits == { id \in ids : Contains(ButtonOf(id), pt) }
    IN IF hits = {} THEN NoButton
       ELSE CHOOSE id \in hits : \A other \in hits : id <= other

\* void initKeyColors()
initKeyColors ==
    /\ pc = "calibrated"
    /\ uiPc = "start"
    /\ keyColor' = InitKeyColors(keyColor)
    /\ uiPc' = "colors"
    /\ UNCHANGED <<key, modeButton, difficultyButton, touchedButton,
                   isButtonTouched, isWaitingForHumanMove, isSettingsMode,
                   active, selMode, selDiff, gridBuilds, touchPt,
                   wasTouched, heldPolls, holdEvents, pressHit>>
    /\ UNCHANGED calVars

\* void drawModeButtons(): the settings page is drawn
drawModeButtons ==
    /\ pc = "calibrated"
    /\ uiPc \in {"colors", "run"}
    /\ isSettingsMode
    /\ modeButton' =
        [modeButton EXCEPT
            ![0] = InitButton(GAME_MODE_21_X, GAME_MODE_2_Y, GAME_MODE_W,
                              GAME_MODE_H, TFT_BLUE),
            ![1] = InitButton(GAME_MODE_22_X, GAME_MODE_2_Y, GAME_MODE_W,
                              GAME_MODE_H, TFT_BLUE)]
    /\ uiPc' = IF uiPc = "colors" THEN "mode" ELSE uiPc
    /\ UNCHANGED <<keyColor, key, difficultyButton, touchedButton,
                   isButtonTouched, isWaitingForHumanMove, isSettingsMode,
                   active, selMode, selDiff, gridBuilds, touchPt,
                   wasTouched, heldPolls, holdEvents, pressHit>>
    /\ UNCHANGED calVars

\* buildDifficultySelectors(): the three difficulty selectors
buildDifficultySelectors ==
    /\ pc = "calibrated"
    /\ uiPc = "mode"
    /\ difficultyButton' =
        [i \in 0..2 |->
            InitButton(CASE i = 0 -> GAME_DIFFICULTY_LEVEL_EASY_X
                         [] i = 1 -> GAME_DIFFICULTY_LEVEL_MIDLE_X
                         [] i = 2 -> GAME_DIFFICULTY_LEVEL_HARD_X,
                       GAME_DIFFICULTY_LEVEL_2_Y, GAME_DIFFICULTY_LEVEL_W,
                       GAME_DIFFICULTY_LEVEL_H, TFT_BLUE)]
    /\ uiPc' = "run"
    /\ UNCHANGED <<keyColor, key, modeButton, touchedButton,
                   isButtonTouched, isWaitingForHumanMove, isSettingsMode,
                   active, selMode, selDiff, gridBuilds, touchPt,
                   wasTouched, heldPolls, holdEvents, pressHit>>
    /\ UNCHANGED calVars

\* void drawKeypad(): the grid is built, or drawn again
drawKeypad ==
    /\ pc = "calibrated"
    /\ uiPc = "run"
    /\ ~isSettingsMode
    /\ gridBuilds < MaxBuilds
    /\ key' = DrawKeys(key, keyColor, 0)
    /\ gridBuilds' = gridBuilds + 1
    /\ UNCHANGED <<keyColor, modeButton, difficultyButton, touchedButton,
                   isButtonTouched, isWaitingForHumanMove, isSettingsMode,
                   active, selMode, selDiff, uiPc, touchPt, wasTouched,
                   heldPolls, holdEvents, pressHit>>
    /\ UNCHANGED calVars

\* the finger goes down on a point, or is lifted (the touch hardware)
Finger ==
    /\ pc = "calibrated"
    /\ uiPc = "run"
    /\ \/ touchPt = <<>> /\ \E pt \in TouchPoints : touchPt' = pt
       \/ touchPt # <<>> /\ touchPt' = <<>>
    /\ UNCHANGED <<keyColor, key, modeButton, difficultyButton,
                   touchedButton, isButtonTouched, isWaitingForHumanMove,
                   isSettingsMode, active, selMode, selDiff, uiPc,
                   gridBuilds, wasTouched, heldPolls, holdEvents, pressHit>>
    /\ UNCHANGED calVars

\* poll(): one sample of the touch service
poll ==
    /\ pc = "calibrated"
    /\ uiPc = "run"
    /\ LET asserted == touchPt # <<>>
           press    == IsPress(asserted, wasTouched)
           id       == IF press THEN HitTest(active, touchPt) ELSE NoButton
           first    == asserted /\ ~wasTouched
       IN
       /\ asserted => (first \/ heldPolls < MaxHold)
       /\ touchedButton' = id
       /\ isButtonTouched' = press
       /\ wasTouched' = asserted
       /\ heldPolls' = IF ~asserted THEN 0
                       ELSE IF first THEN 1 ELSE heldPolls + 1
       /\ holdEvents' = IF ~asserted THEN 0
                        ELSE (IF first THEN 0 ELSE holdEvents)
                                 + (IF id # NoButton THEN 1 ELSE 0)
       /\ pressHit' = IF ~asserted THEN FALSE
                      ELSE IF first THEN HitTest(active, touchPt) # NoButton
                      ELSE pressHit
    /\ UNCHANGED <<keyColor, key, modeButton, difficultyButton,
                   isWaitingForHumanMove, isSettingsMode, active, selMode,
                   selDiff, uiPc, gridBuilds, touchPt>>
    /\ UNCHANGED calVars

\* setState(id, visualState): the colour of a cell changes and the cell
\* is drawn with it
SetCell(id, color) ==
    /\ keyColor' = [keyColor EXCEPT ![id] = color]
    /\ key' = [key EXCEPT ![id].fill = color]

\* the game takes the event of the last poll: a selector selects, a cell
\* is a move when a human move is awaited
consumeTouch ==
    /\ pc = "calibrated"
    /\ uiPc = "run"
    /\ isButtonTouched
    /\ touchedButton # NoButton
    /\ IF isSettingsMode
         THEN /\ selMode' = IF touchedButton \in ModeIds
                              THEN touchedButton - NUMBER_OF_KEYS
                              ELSE selMode
              /\ selDiff' = IF touchedButton \in DifficultyIds
                              THEN touchedButton - NUMBER_OF_KEYS - 2
                              ELSE selDiff
              /\ UNCHANGED <<keyColor, key, isWaitingForHumanMove>>
         ELSE /\ IF /\ isWaitingForHumanMove
                    /\ gridBuilds > 0
                    /\ touchedButton \in GridIds
                   THEN /\ SetCell(touchedButton, TFT_WHITE)
                        /\ isWaitingForHumanMove' = FALSE
                   ELSE UNCHANGED <<keyColor, key, isWaitingForHumanMove>>
              /\ UNCHANGED <<selMode, selDiff>>
    /\ touchedButton' = NoButton
    /\ isButtonTouched' = FALSE
    /\ UNCHANGED <<modeButton, difficultyButton, isSettingsMode, active,
                   uiPc, gridBuilds, touchPt, wasTouched, heldPolls,
                   holdEvents, pressHit>>
    /\ UNCHANGED calVars

\* enterPlay(): both selections are made
enterPlay ==
    /\ pc = "calibrated"
    /\ uiPc = "run"
    /\ isSettingsMode
    /\ selMode # -1
    /\ selDiff # -1
    /\ isSettingsMode' = FALSE
    /\ active' = ActiveFor(FALSE)
    /\ UNCHANGED <<keyColor, key, modeButton, difficultyButton,
                   touchedButton, isButtonTouched, isWaitingForHumanMove,
                   selMode, selDiff, uiPc, gridBuilds, touchPt, wasTouched,
                   heldPolls, holdEvents, pressHit>>
    /\ UNCHANGED calVars

\* enterSettings(): restart, asked for from outside
enterSettings ==
    /\ pc = "calibrated"
    /\ uiPc = "run"
    /\ ~isSettingsMode
    /\ isSettingsMode' = TRUE
    /\ active' = ActiveFor(TRUE)
    /\ selMode' = -1
    /\ selDiff' = -1
    /\ isWaitingForHumanMove' = FALSE
    /\ UNCHANGED <<keyColor, key, modeButton, difficultyButton,
                   touchedButton, isButtonTouched, uiPc, gridBuilds,
                   touchPt, wasTouched, heldPolls, holdEvents, pressHit>>
    /\ UNCHANGED calVars

\* setAwaitingHumanInput(true): the human is to move (mode Human-AI)
setAwaitingHumanInput ==
    /\ pc = "calibrated"
    /\ uiPc = "run"
    /\ ~isSettingsMode
    /\ selMode = 0
    /\ ~isWaitingForHumanMove
    /\ isWaitingForHumanMove' = TRUE
    /\ UNCHANGED <<keyColor, key, modeButton, difficultyButton,
                   touchedButton, isButtonTouched, isSettingsMode, active,
                   selMode, selDiff, uiPc, gridBuilds, touchPt, wasTouched,
                   heldPolls, holdEvents, pressHit>>
    /\ UNCHANGED calVars

\* setState(id, visualState) by the game for a move of the machine
setState ==
    /\ pc = "calibrated"
    /\ uiPc = "run"
    /\ ~isSettingsMode
    /\ gridBuilds > 0
    /\ ~isWaitingForHumanMove
    /\ \E id \in {0, NUMBER_OF_KEYS - 1}, color \in PieceColors :
        /\ keyColor[id] # color
        /\ SetCell(id, color)
    /\ UNCHANGED <<modeButton, difficultyButton, touchedButton,
                   isButtonTouched, isWaitingForHumanMove, isSettingsMode,
                   active, selMode, selDiff, uiPc, gridBuilds, touchPt,
                   wasTouched, heldPolls, holdEvents, pressHit>>
    /\ UNCHANGED calVars

NextUI ==
    \/ initKeyColors
    \/ drawModeButtons
    \/ buildDifficultySelectors
    \/ drawKeypad
    \/ Finger
    \/ poll
    \/ consumeTouch
    \/ enterPlay
    \/ enterSettings
    \/ setAwaitingHumanInput
    \/ setState

Init == InitCal /\ InitUI

Next == NextCal \/ NextUI

\* the program: calibration at start-up, then the control surface
Spec == Init /\ [][Next]_vars

\* the sessions of the calibration alone
SpecCal == Init /\ [][NextCal]_vars

\* a session whose calibration loaded the stored record
InitCalibrated ==
    /\ REPEAT_CAL = FALSE
    /\ fsExists = TRUE
    /\ fsData = ToBytes(CHOOSE r \in AcqRecords : TRUE)
    /\ pc = "calibrated"
    /\ session = MaxSessions
    /\ existed = TRUE
    /\ readCount = CAL_BYTES
    /\ acqCount = 0
    /\ calData = FromBytes(fsData)
    /\ wrote = -1
    /\ applied = FromBytes(fsData)
    /\ prevAcq = 0
    /\ prevWrote = -1
    /\ initAbsent = FALSE
    /\ everForced = FALSE
    /\ ioFault = FALSE
    /\ firstRec = NoCal

\* the control surface of one session
InitSurface == InitCalibrated /\ InitUI

SpecUI == InitSurface /\ [][NextUI]_vars


(***************************************************************************)
(* Properties of the calibration (checked under SpecCal).                  *)
(***************************************************************************)
\* the call of touch_calibrate_LovyanGFX has returned
Returned == pc = "calibrated"

\* the first 16 bytes of the file are the record rec
FileStartsWith(rec) ==
    /\ fsExists
    /\ Len(fsData) >= CAL_BYTES
    /\ \A i \in 1..CAL_WORDS :
        fsData[2 * i - 1] + 256 * fsData[2 * i] = rec[i]

\* the file holds exactly the 16 bytes of the record rec
FileHolds(rec) == FileStartsWith(rec) /\ Len(fsData) = CAL_BYTES

C2_Original ==
    (Returned /\ REPEAT_CAL) => (acqCount = 1 /\ FileHolds(calData))

\* C2 amended: with REPEAT_CAL true every call runs the acquisition and
\* never reads the file; when the file opens for writing and all 16 bytes
\* are written, the file holds the newly acquired record, whatever it
\* held before.
C2_ForcedRecalibration ==
    (Returned /\ REPEAT_CAL)
        => /\ acqCount = 1
           /\ readCount = -1
           /\ calData \in AcqRecords
           /\ wrote = CAL_BYTES => FileHolds(calData)

C2_Witness ==
    /\ Returned
    /\ REPEAT_CAL
    /\ existed
    /\ acqCount = 1
    /\ wrote = CAL_BYTES
    /\ FileHolds(calData)

\* the file was absent, or the read delivered fewer than 16 bytes
AbsentOrShort == ~existed \/ readCount \in 0..(CAL_BYTES - 1)

\* C3 as stated: when the file is absent or the read is short, the call
\* runs the acquisition once and the file then holds the 16 bytes of the
\* acquired record.
C3_Original ==
    (Returned /\ AbsentOrShort) => (acqCount = 1 /\ FileHolds(calData))

\* C3 amended: when the file is absent or the read is short, the call
\* runs the acquisition once; when the file opens for writing and all 16
\* bytes are written, the file is 16 bytes long and holds the acquired
\* coefficients.
C3_Reacquire ==
    (Returned /\ AbsentOrShort)
        => /\ acqCount = 1
           /\ calData \in AcqRecords
           /\ wrote = CAL_BYTES => FileHolds(calData)

C3_Witness ==
    /\ Returned
    /\ existed
    /\ readCount \in 1..(CAL_BYTES - 1)
    /\ acqCount = 1
    /\ wrote = CAL_BYTES
    /\ FileHolds(calData)

\* what C4 says of the session reached, flag false in every session and
\* no file at the start
FirstThenSkip ==
    IF session = 1
      THEN acqCount = 1 /\ FileHolds(calData)
      ELSE acqCount = 0 /\ applied = firstRec /\ firstRec \in AcqRecords

C5_AppliedOnReturn ==
    Returned
        => /\ Len(applied) = CAL_WORDS
           /\ applied = calData
           /\ acqCount = 0 => (wrote = -1 /\ FileStartsWith(applied))
           /\ acqCount = 1 => applied \in AcqRecords

C5_Witness ==
    /\ Returned
    /\ acqCount = 1
    /\ wrote = -1
    /\ applied \in AcqRecords
    /\ applied = calData

\* the previous session acquired a record and did not store all of it
PrevPersistFailed ==
    session > 1 /\ prevAcq = 1 /\ prevWrote # CAL_BYTES

\* the acquired record is in use although it was not stored in full
UsableUnstored ==
    (Returned /\ acqCount = 1 /\ wrote # CAL_BYTES)
        => (applied = calData /\ applied \in AcqRecords)

\* C6 as stated: a failed store leaves the acquired record in use, and
\* the next session with the flag false acquires again.
C6_Original ==
    /\ UsableUnstored
    /\ (Returned /\ ~REPEAT_CAL /\ PrevPersistFailed) => acqCount = 1

\* C6 amended: a failed store leaves the acquired record in use; the next
\* session with the flag false acquires again, unless the file could not
\* be opened for writing and still holds 16 bytes or more from before,
\* which are then read in full and applied.  A missing or partial file is
\* never used.
C6_StoreFailure ==
    /\ UsableUnstored
    /\ (Returned /\ ~REPEAT_CAL /\ PrevPersistFailed)
        => \/ acqCount = 1
           \/ /\ prevWrote = -1
              /\ readCount = CAL_BYTES
              /\ fsExists
              /\ applied = FromBytes(fsData)

C6_Witness ==
    /\ Returned
    /\ ~REPEAT_CAL
    /\ PrevPersistFailed
    /\ prevWrote \in 1..(CAL_BYTES - 1)
    /\ existed
    /\ acqCount = 1
    /\ applied = calData

(***************************************************************************)
(* Properties of the control surface (checked under SpecUI).               *)
(***************************************************************************)
\* two buttons share a pixel
Overlap(a, b) ==
    /\ a.x < b.x + b.w /\ b.x < a.x + a.w
    /\ a.y < b.y + b.h /\ b.y < a.y + a.h

\* C7: once drawKeypad has run, the 64 buttons written are the 64
\* distinct entries 0..63 of key[]; entry col + row * 8 is the button of
\* width and height 25 centred at (15 + col * 30, 15 + row * 30), and no
\* two of the 64 rectangles overlap.
C7_GridBuilt ==
    gridBuilds > 0
        => /\ DOMAIN key = 0..63
           /\ Cardinality({ b \in DOMAIN key : key[b].inited }) = 64
           /\ \A row \in 0..7, col \in 0..7 :
                LET b == col + row * 8 IN
                /\ key[b].inited
                /\ key[b].w = 25 /\ key[b].h = 25
                /\ key[b].x + 12 = 15 + col * (25 + 5)
                /\ key[b].y + 12 = 15 + row * (25 + 5)
           /\ \A a, b \in DOMAIN key :
                a # b => ~Overlap(key[a], key[b])

C7_Witness ==
    /\ gridBuilds > 0
    /\ key[0].inited /\ key[0].x = 3 /\ key[0].y = 3
    /\ key[63].inited /\ key[63].x = 213 /\ key[63].y = 213

OneEvent ==
    /\ touchedButton \in {NoButton} \cup GridIds \cup SelectorIds
    /\ touchedButton # NoButton => isButtonTouched

\* C9 as stated: of the polls of a held touch exactly the first resolves
\* an identity, the following ones give none.
C9_Original ==
    /\ heldPolls >= 1 => holdEvents = 1
    /\ heldPolls > 1 => touchedButton = NoButton
    /\ OneEvent

\* C9 amended: of the polls of a touch held on an active button exactly
\* the first resolves an identity; of a touch held beside every active
\* button none does; every poll after the first gives none until the
\* touch is released and pressed again.
C9_EdgeTriggered ==
    /\ heldPolls >= 1 => holdEvents = (IF pressHit THEN 1 ELSE 0)
    /\ heldPolls > 1 => (touchedButton = NoButton /\ ~isButtonTouched)
    /\ OneEvent

C9_Witness ==
    /\ heldPolls = MaxHold
    /\ pressHit
    /\ holdEvents = 1
    /\ touchedButton = NoButton
    /\ touchPt # <<>>

=============================================================================
